---- MODULE Spec2Model ----
(***************************************************************************)
(* dinosim: antenna gain model (spacecraft.py), received-power field       *)
(* (comms.py) and multi-spacecraft aggregation (visualizations.py).        *)
(*                                                                         *)
(* Numbers.  The program computes in IEEE double precision through numpy.  *)
(* A number is modelled as a decimal floating-point record                 *)
(*     [k |-> "fin", m |-> mantissa, e |-> exponent]   (value m * 10^e)    *)
(* with a four digit mantissa (1000 <= |m| <= 9999, or m = 0 and e = 0),   *)
(* or one of the three non-finite values PInf, NInf, NaN.  The finite      *)
(* range is the one of a double (overflow above 10^308 gives an infinity,  *)
(* underflow below 10^-324 gives 0); results are truncated to four digits. *)
(* Signed zeros are not distinguished.  Non-finite values propagate as     *)
(* numpy propagates them (a warning, no exception).                        *)
(***************************************************************************)
EXTENDS Integers, Sequences, FiniteSets, TLC

VARIABLES craft, last_call, res

vars == <<craft, last_call, res>>

-----------------------------------------------------------------------------
(* Decimal floating point                                                  *)

Abs(n) == IF n < 0 THEN -n ELSE n

Sgn(n) == IF n < 0 THEN -1 ELSE IF n = 0 THEN 0 ELSE 1

NaN == [k |-> "nan", m |-> 0, e |-> 0]

PInf == [k |-> "inf", m |-> 1, e |-> 0]

NInf == [k |-> "inf", m |-> -1, e |-> 0]

Zero == [k |-> "fin", m |-> 0, e |-> 0]

IsNaN(a) == a.k = "nan"

IsInf(a) == a.k = "inf"

IsFinite(a) == a.k = "fin"

Tens == <<1, 10, 100, 1000, 10000, 100000>>

RECURSIVE NormMag(_, _)
NormMag(a, e) ==
    IF a = 0 THEN <<0, 0>>
    ELSE IF a >= 10000 THEN NormMag(a \div 10, e + 1)
    ELSE IF a < 1000 THEN NormMag(a * 10, e - 1)
    ELSE <<a, e>>

\* The double nearest to m * 10^e, at four digits; overflow and underflow
\* happen where a double overflows and underflows.
Mk(m, e) ==
    LET n == NormMag(Abs(m), e)
    IN  IF n[1] = 0 THEN Zero
        ELSE IF n[2] + 3 > 308 THEN (IF m > 0 THEN PInf ELSE NInf)
        ELSE IF n[2] + 3 < -324 THEN Zero
        ELSE [k |-> "fin", m |-> Sgn(m) * n[1], e |-> n[2]]

Num(n) == Mk(n, 0)

One == Num(1)

Neg(a) == IF IsNaN(a) THEN NaN ELSE [a EXCEPT !.m = -a.m]

Add(a, b) ==
    IF IsNaN(a) \/ IsNaN(b) THEN NaN
    ELSE IF IsInf(a) /\ IsInf(b) THEN (IF a.m = b.m THEN a ELSE NaN)
    ELSE IF IsInf(a) THEN a
    ELSE IF IsInf(b) THEN b
    ELSE IF a.m = 0 THEN b
    ELSE IF b.m = 0 THEN a
    ELSE LET hi == IF a.e >= b.e THEN a ELSE b
             lo == IF a.e >= b.e THEN b ELSE a
             d  == hi.e - lo.e
         IN  IF d >= 5 THEN hi ELSE Mk(hi.m * Tens[d + 1] + lo.m, lo.e)

Sub(a, b) == Add(a, Neg(b))

Mul(a, b) ==
    IF IsNaN(a) \/ IsNaN(b) THEN NaN
    ELSE IF IsInf(a) \/ IsInf(b)
         THEN (IF a.m = 0 \/ b.m = 0 THEN NaN
               ELSE IF Sgn(a.m) = Sgn(b.m) THEN PInf ELSE NInf)
    ELSE Mk(a.m * b.m, a.e + b.e)

\* numpy float64 division: x/0 is an infinity, 0/0 is NaN, no exception.
Div(a, b) ==
    IF IsNaN(a) \/ IsNaN(b) THEN NaN
    ELSE IF IsInf(a)
         THEN (IF IsInf(b) THEN NaN
               ELSE IF Sgn(a.m) * (IF b.m < 0 THEN -1 ELSE 1) > 0 THEN PInf ELSE NInf)
    ELSE IF IsInf(b) THEN Zero
    ELSE IF b.m = 0
         THEN (IF a.m = 0 THEN NaN ELSE IF a.m > 0 THEN PInf ELSE NInf)
    ELSE Mk(Sgn(a.m) * Sgn(b.m) * ((Abs(a.m) * 100000) \div Abs(b.m)), a.e - 5 - b.e)

\* a < b; every comparison with NaN is false.
Lt(a, b) ==
    IF IsNaN(a) \/ IsNaN(b) THEN FALSE
    ELSE IF a = b THEN FALSE
    ELSE IF a = NInf \/ b = PInf THEN TRUE
    ELSE IF a = PInf \/ b = NInf THEN FALSE
    ELSE Sub(a, b).m < 0

\* a >= b; every comparison with NaN is false.
Ge(a, b) == ~IsNaN(a) /\ ~IsNaN(b) /\ ~Lt(a, b)

RECURSIVE ISqrtBS(_, _, _)
ISqrtBS(n, lo, hi) ==
    IF hi - lo <= 1 THEN lo
    ELSE LET mid == (lo + hi) \div 2
         IN  IF mid * mid <= n THEN ISqrtBS(n, mid, hi) ELSE ISqrtBS(n, lo, mid)

ISqrt(n) == ISqrtBS(n, 0, 46341)

\* np.sqrt: NaN for a negative argument.
Sqrt(a) ==
    IF IsNaN(a) THEN NaN
    ELSE IF a = PInf THEN PInf
    ELSE IF a.m < 0 THEN NaN
    ELSE IF a.m = 0 THEN Zero
    ELSE IF a.e % 2 = 0 THEN Mk(ISqrt(a.m * 10000), (a.e - 4) \div 2)
    ELSE Mk(ISqrt(a.m * 100000), (a.e - 5) \div 2)

\* ln(x / 10^4) * 10^4 for 10000 <= x < 20000, by the atanh series.
LnFix(x) ==
    LET z  == ((x - 10000) * 10000) \div (x + 10000)
        z2 == (z * z) \div 10000
        z3 == (z * z2) \div 10000
        z5 == (z3 * z2) \div 10000
        z7 == (z5 * z2) \div 10000
    IN  2 * (z + z3 \div 3 + z5 \div 5 + z7 \div 7)

RECURSIVE Log10Fix(_, _)
Log10Fix(x, acc) ==
    IF x >= 20000 THEN Log10Fix(x \div 2, acc + 3010)
    ELSE acc + (LnFix(x) * 4343) \div 10000

\* np.log10: -inf at 0, NaN for a negative argument.
Log10(a) ==
    IF IsNaN(a) THEN NaN
    ELSE IF a = PInf THEN PInf
    ELSE IF a.m < 0 THEN NaN
    ELSE IF a.m = 0 THEN NInf
    ELSE Mk((a.e + 3) * 10000 + Log10Fix(a.m * 10, 0), -4)

RECURSIVE ExpSeries(_, _, _, _)
ExpSeries(t, term, k, acc) ==
    IF term = 0 \/ k > 16 THEN acc
    ELSE ExpSeries(t, (term * t) \div (k * 10000), k + 1, acc + term)

\* 10 ** y
Pow10(y) ==
    IF IsNaN(y) THEN NaN
    ELSE IF y = PInf THEN PInf
    ELSE IF y = NInf THEN Zero
    ELSE IF y.m = 0 THEN One
    ELSE IF y.e >= 0 THEN (IF y.m > 0 THEN PInf ELSE Zero)
    ELSE LET Y == IF y.e >= -4 THEN y.m * Tens[y.e + 5]
                  ELSE IF y.e >= -9 THEN Sgn(y.m) * (Abs(y.m) \div Tens[-y.e - 3])
                  ELSE 0
             n == Y \div 10000
             f == Y - n * 10000
             h == IF f >= 5000 THEN f - 5000 ELSE f
             r == ExpSeries((h * 23026) \div 10000, 10000, 1, 0)
         IN  Mk(IF f >= 5000 THEN (r * 31623) \div 10000 ELSE r, n - 4)

\* np.exp
Exp(a) == Pow10(Mul(a, Mk(4343, -4)))

\* np.radians and np.degrees
Radians(a) == Mul(a, Mk(1745, -5))

Degrees(a) == Mul(a, Mk(5730, -2))

Pi == Mk(3142, -3)

\* a finite angle as an integer number of 10^-4 radians, reduced to [-pi, pi)
AngleFix(a) ==
    LET x == IF a.e >= -4 THEN a.m * Tens[a.e + 5]
             ELSE IF a.e >= -9 THEN Sgn(a.m) * (Abs(a.m) \div Tens[-a.e - 3])
             ELSE 0
    IN  ((x + 31416) % 62832) - 31416

\* sin and cos of x * 10^-4 radians, 0 <= x <= 15708, times 10^4
SinFix(x) ==
    LET x2 == (x * x) \div 10000
        h4 == 10000 - x2 \div 72
        h3 == 10000 - ((x2 * h4) \div 10000) \div 42
        h2 == 10000 - ((x2 * h3) \div 10000) \div 20
        h1 == 10000 - ((x2 * h2) \div 10000) \div 6
    IN  (x * h1) \div 10000

CosFix(x) ==
    LET x2 == (x * x) \div 10000
        h5 == 10000 - x2 \div 90
        h4 == 10000 - ((x2 * h5) \div 10000) \div 56
        h3 == 10000 - ((x2 * h4) \div 10000) \div 30
        h2 == 10000 - ((x2 * h3) \div 10000) \div 12
    IN  10000 - ((x2 * h2) \div 10000) \div 2

\* np.sin, np.cos (angles up to a few turns, as the program uses them)
Sin(a) ==
    IF ~IsFinite(a) THEN NaN
    ELSE LET x == AngleFix(a)
             y == Abs(x)
             w == IF y > 15708 THEN 31416 - y ELSE y
         IN  Mk(Sgn(x) * SinFix(w), -4)

Cos(a) ==
    IF ~IsFinite(a) THEN NaN
    ELSE LET y == Abs(AngleFix(a))
         IN  IF y > 15708 THEN Mk(-CosFix(31416 - y), -4) ELSE Mk(CosFix(y), -4)

\* atan(r) * 10^4 for r = R * 10^-4 in [0, 1]
AtanFix(R) ==
    LET s  == ISqrt((10000 + (R * R) \div 10000) * 10000)
        r1 == (R * 10000) \div (10000 + s)
        z  == (r1 * r1) \div 10000
        p3 == (r1 * z) \div 10000
        p5 == (p3 * z) \div 10000
        p7 == (p5 * z) \div 10000
        p9 == (p7 * z) \div 10000
    IN  2 * (r1 - p3 \div 3 + p5 \div 5 - p7 \div 7 + p9 \div 9)

\* np.arctan2(y, x) for finite arguments; arctan2(0, 0) is 0.
Arctan2(y, x) ==
    IF ~IsFinite(y) \/ ~IsFinite(x) THEN NaN
    ELSE IF y.m = 0 THEN (IF x.m >= 0 THEN Zero ELSE Pi)
    ELSE IF x.m = 0 THEN Mk(Sgn(y.m) * 15708, -4)
    ELSE LET ay == [y EXCEPT !.m = Abs(y.m)]
             ax == [x EXCEPT !.m = Abs(x.m)]
             q  == IF Lt(ax, ay) THEN Div(ax, ay) ELSE Div(ay, ax)
             R  == IF q.e >= -4 THEN q.m * Tens[q.e + 5]
                   ELSE IF q.e >= -9 THEN q.m \div Tens[-q.e - 3]
                   ELSE 0
             t  == IF Lt(ax, ay) THEN 15708 - AtanFix(R) ELSE AtanFix(R)
         IN  Mk(Sgn(y.m) * (IF x.m > 0 THEN t ELSE 31416 - t), -4)

-----------------------------------------------------------------------------
(* Outcomes of a call: a returned value or a raised exception              *)

Ok(v) == [status |-> "ok", val |-> v]

\* `raise ValueError("Communication parameters not set. ...")`: the program's
\* "parameters not configured" error.
NotConfigured == [status |-> "NotConfigured", val |-> <<>>]

\* Reading an attribute that __init__ never assigned.
AttributeError == [status |-> "AttributeError", val |-> <<>>]

\* np.linspace with a negative number of samples.
LinspaceError == [status |-> "LinspaceValueError", val |-> <<>>]

\* An attribute the object does not have.
Absent == [k |-> "absent", m |-> 0, e |-> 0]

-----------------------------------------------------------------------------
(* bodies.py                                                               *)

Planet(center_x, center_y, radius) == [x |-> center_x, y |-> center_y, radius |-> radius]

-----------------------------------------------------------------------------
(* spacecraft.py                                                           *)

\* DINO.__init__
DINO(orbiting_body, altitude, angle_global, pointing_angle) ==
    [orbiting_body |-> orbiting_body,
     altitude |-> altitude,
     angle_global |-> angle_global,
     pointing_angle |-> pointing_angle,
     comms_params_set |-> FALSE,
     transmit_power_dBm |-> Absent,
     frequency_hz |-> Absent,
     antenna_gain_dB |-> Absent,
     antenna_gain_abs |-> Absent]

get_absolute_pointing_angle(self, degrees) ==
    IF degrees THEN Num(self.angle_global + self.pointing_angle)
    ELSE Radians(Num(self.angle_global + self.pointing_angle))

\* a set_comm_params that derives antenna_gain_abs on the first call only
set_comm_params_StaleAbs(self, transmit_power_dBm, frequency_hz, antenna_gain_dB) ==
    [self EXCEPT !.transmit_power_dBm = transmit_power_dBm,
                 !.frequency_hz = frequency_hz,
                 !.antenna_gain_dB = antenna_gain_dB,
                 !.antenna_gain_abs = IF self.comms_params_set THEN @
                                      ELSE Pow10(Div(antenna_gain_dB, Num(10))),
                 !.comms_params_set = TRUE]

\* DINO.set_comm_params: the object after the call.  No argument is checked.
set_comm_params(self, transmit_power_dBm, frequency_hz, antenna_gain_dB) ==
    [self EXCEPT !.transmit_power_dBm = transmit_power_dBm,
                 !.frequency_hz = frequency_hz,
                 !.antenna_gain_dB = antenna_gain_dB,
                 !.antenna_gain_abs = Pow10(Div(antenna_gain_dB, Num(10))),
                 !.comms_params_set = TRUE]

\* sigma of the Gaussian: radians(65 * sqrt(3) / sqrt(antenna_gain_dB)) / 2
Sigma(antenna_gain_dB) ==
    LET K == Mul(Num(65), Sqrt(Num(3)))
        antenna_beamwidth == Div(K, Sqrt(antenna_gain_dB))
    IN  Div(Radians(antenna_beamwidth), Num(2))

\* antenna_gain_dB * exp(-0.5 * (theta / sigma) ** 2)
Gaussian(antenna_gain_dB, theta, sigma) ==
    LET q == Div(theta, sigma)
    IN  Mul(antenna_gain_dB, Exp(Mul(Mk(-5, -1), Mul(q, q))))

\* DINO.get_absolute_gain: with degrees false theta is converted to degrees,
\* with degrees true it is used as given; sigma is in radians either way.
GainTheta(theta, degrees) == IF ~degrees THEN Degrees(theta) ELSE theta

get_absolute_gain(self, theta, degrees) ==
    IF ~self.comms_params_set THEN NotConfigured
    ELSE Ok(Gaussian(self.antenna_gain_dB, GainTheta(theta, degrees),
                     Sigma(self.antenna_gain_dB)))

TenLog10(a) == Mul(Num(10), Log10(a))

get_absolute_gain_dB(self, theta, degrees) ==
    LET r == get_absolute_gain(self, theta, degrees)
    IN  IF r.status # "ok" THEN r ELSE Ok(TenLog10(r.val))

\* np.linspace(start, stop, num) for num >= 0 (a negative num raises)
Linspace(start, stop, num) ==
    IF num = 1 THEN <<start>>
    ELSE LET step == Div(Sub(stop, start), Num(num - 1))
         IN  [i \in 1..num |-> IF i = num THEN stop
                               ELSE Add(Mul(Num(i - 1), step), start)]

\* np.max / np.maximum of two values: NaN propagates
Maximum(a, b) == IF IsNaN(a) \/ IsNaN(b) THEN NaN ELSE IF Lt(a, b) THEN b ELSE a

RECURSIVE MaxRange(_, _, _)
MaxRange(s, lo, hi) ==
    IF lo = hi THEN s[lo]
    ELSE LET mid == (lo + hi) \div 2
         IN  Maximum(MaxRange(s, lo, mid), MaxRange(s, mid + 1, hi))

\* np.max of a non-empty array
NpMax(s) == MaxRange(s, 1, Len(s))

\* the number of samples of a radiation pattern
NumSamples == 360

\* DINO.get_absolute_radiation_pattern: theta is sampled over [-pi, pi], the
\* pattern is evaluated on it, and with degrees false np.radians is applied
\* to the returned theta.
PatternTheta(theta, degrees) ==
    IF ~degrees THEN [i \in DOMAIN theta |-> Radians(theta[i])] ELSE theta

get_absolute_radiation_pattern(self, degrees) ==
    IF ~self.comms_params_set THEN NotConfigured
    ELSE LET sigma == Sigma(self.antenna_gain_dB)
             theta == Linspace(Neg(Pi), Pi, NumSamples)
             pattern == [i \in DOMAIN theta |->
                            Gaussian(self.antenna_gain_dB, theta[i], sigma)]
         IN  Ok([theta |-> PatternTheta(theta, degrees), pattern |-> pattern])

get_absolute_radiation_pattern_dB(self, degrees) ==
    LET r == get_absolute_radiation_pattern(self, degrees)
    IN  IF r.status # "ok" THEN r
        ELSE Ok([theta |-> r.val.theta,
                 pattern |-> [i \in DOMAIN r.val.pattern |-> TenLog10(r.val.pattern[i])]])

get_normalized_radiation_pattern(self, degrees) ==
    LET r == get_absolute_radiation_pattern(self, degrees)
    IN  IF r.status # "ok" THEN r
        ELSE LET mx == NpMax(r.val.pattern)
             IN  Ok([theta |-> r.val.theta,
                     pattern |-> [i \in DOMAIN r.val.pattern |-> Div(r.val.pattern[i], mx)]])

get_normalized_radiation_pattern_dB(self, degrees) ==
    LET r == get_absolute_radiation_pattern_dB(self, degrees)
    IN  IF r.status # "ok" THEN r
        ELSE LET mx == NpMax(r.val.pattern)
             IN  Ok([theta |-> r.val.theta,
                     pattern |-> [i \in DOMAIN r.val.pattern |-> Sub(r.val.pattern[i], mx)]])

-----------------------------------------------------------------------------
(* comms.py                                                                *)

\* the spacecraft's global position
GlobalX(cr) ==
    Add(Num(cr.orbiting_body.x),
        Mul(Num(cr.altitude + cr.orbiting_body.radius), Cos(Radians(Num(cr.angle_global)))))

GlobalY(cr) ==
    Add(Num(cr.orbiting_body.y),
        Mul(Num(cr.altitude + cr.orbiting_body.radius), Sin(Radians(Num(cr.angle_global)))))

\* np.sqrt((X - global_x) ** 2 + (Y - global_y) ** 2)
Distance(X, Y, gx, gy) ==
    LET dx == Sub(X, gx)
        dy == Sub(Y, gy)
    IN  Sqrt(Add(Mul(dx, dx), Mul(dy, dy)))

\* 20*log10(distance*1000) + 20*log10(frequency_hz/1e6) + 32.44
PathLoss(distance, frequency_hz) ==
    Add(Add(Mul(Num(20), Log10(Mul(distance, Num(1000)))),
            Mul(Num(20), Log10(Div(frequency_hz, Mk(1, 6))))),
        Mk(3244, -2))

\* the angle between the pointing direction and the vector to the point
AngleToPoint(cr, X, Y, gx, gy) ==
    LET pointing_angle == Mul(Num(-1), get_absolute_pointing_angle(cr, FALSE))
        v0 == Sub(X, gx)
        v1 == Sub(Y, gy)
        c  == Cos(pointing_angle)
        s  == Sin(pointing_angle)
        w0 == Add(Mul(c, v0), Mul(Neg(s), v1))
        w1 == Add(Mul(s, v0), Mul(c, v1))
    IN  Arctan2(w1, w0)

\* a field that applies the antenna correction whatever the flag says
PowerAt_AlwaysCorrected(cr, X, Y, gx, gy, antenna_correction) ==
    Add(Sub(cr.transmit_power_dBm, PathLoss(Distance(X, Y, gx, gy), cr.frequency_hz)),
        get_absolute_gain_dB(cr, AngleToPoint(cr, X, Y, gx, gy), FALSE).val)

\* power_received[i, j] after the optional antenna correction
PowerAt(cr, X, Y, gx, gy, antenna_correction) ==
    LET base == Sub(cr.transmit_power_dBm, PathLoss(Distance(X, Y, gx, gy), cr.frequency_hz))
    IN  IF antenna_correction
        THEN Add(base, get_absolute_gain_dB(cr, AngleToPoint(cr, X, Y, gx, gy), FALSE).val)
        ELSE base

\* get_power_received_field_from_spacecraft.  No argument is checked; the
\* exceptions are the ones the statements raise on their own.
get_power_received_field_from_spacecraft(xlim, ylim, cr, num_points, antenna_correction) ==
    IF num_points < 0 THEN LinspaceError
    ELSE IF cr.frequency_hz = Absent \/ cr.transmit_power_dBm = Absent THEN AttributeError
    ELSE IF antenna_correction /\ num_points > 0 /\ ~cr.comms_params_set THEN NotConfigured
    ELSE LET x  == Linspace(Num(xlim[1]), Num(xlim[2]), num_points)
             y  == Linspace(Num(ylim[1]), Num(ylim[2]), num_points)
             gx == GlobalX(cr)
             gy == GlobalY(cr)
         IN  Ok([X |-> [i \in 1..num_points |-> [j \in 1..num_points |-> x[j]]],
                 Y |-> [i \in 1..num_points |-> [j \in 1..num_points |-> y[i]]],
                 power_received |->
                     [i \in 1..num_points |-> [j \in 1..num_points |->
                         PowerAt(cr, x[j], y[i], gx, gy, antenna_correction)]]])

-----------------------------------------------------------------------------
(* visualizations.py: the fields the plots are drawn from                  *)

VizXlim == <<-100, 500>>

VizYlim == <<-300, 300>>

\* num_points of the plotted fields (the program's default is 100)
DefaultNumPoints == 3

\* the first exception raised while the power maps are collected, if any
RECURSIVE FirstError(_, _)
FirstError(maps, i) ==
    IF i > Len(maps) THEN Ok(<<>>)
    ELSE IF maps[i].status # "ok" THEN maps[i]
    ELSE FirstError(maps, i + 1)

PowerMaps(spacecraft, antenna_correction) ==
    [k \in DOMAIN spacecraft |->
        get_power_received_field_from_spacecraft(VizXlim, VizYlim, spacecraft[k],
                                                 DefaultNumPoints, antenna_correction)]

\* np.max(np.array(power_maps), axis=0) at one grid point
BestAt(maps, i, j) == NpMax([k \in DOMAIN maps |-> maps[k].val.power_received[i][j]])

\* plot_best_received_power_field: best_power_map, for a non-empty list
best_power_map(spacecraft, antenna_correction) ==
    LET maps == PowerMaps(spacecraft, antenna_correction)
        err  == FirstError(maps, 1)
    IN  IF err.status # "ok" THEN err
        ELSE Ok([i \in 1..DefaultNumPoints |-> [j \in 1..DefaultNumPoints |->
                    BestAt(maps, i, j)]])

\* a threshold that excludes the threshold itself
Acquired_Strict(power, min_power) == Lt(min_power, power)

\* power_maps >= min_power, at one grid point of one map
Acquired(power, min_power) == Ge(power, min_power)

\* np.sum(power_maps >= min_power, axis=0) at one grid point
RECURSIVE CountFrom(_, _, _, _, _)
CountFrom(maps, i, j, min_power, k) ==
    IF k > Len(maps) THEN 0
    ELSE (IF Acquired(maps[k].val.power_received[i][j], min_power) THEN 1 ELSE 0)
         + CountFrom(maps, i, j, min_power, k + 1)

\* plot_min_satellite_acquisition: num_satellites
num_satellites(spacecraft, min_power, antenna_correction) ==
    LET maps == PowerMaps(spacecraft, antenna_correction)
        err  == FirstError(maps, 1)
    IN  IF err.status # "ok" THEN err
        ELSE Ok([i \in 1..DefaultNumPoints |-> [j \in 1..DefaultNumPoints |->
                    CountFrom(maps, i, j, min_power, 1)]])

-----------------------------------------------------------------------------
(* Inputs                                                                  *)

\* the most set_comm_params calls on one spacecraft that last_call counts
MaxCalls == 2

Earth == Planet(0, 0, 10)

Powers == {Num(10), Num(20)}

Freqs == {Zero, Mk(1, 8)}

Gains == {Num(-3), Zero, Num(3)}

\* theta of a gain query: 0, 0.5, 30 and -30
Thetas == {Zero, Mk(5, -1), Num(30), Num(-30)}

\* regions of a field query; both hold the point (60, 0)
Grids == {[xlim |-> <<60, 120>>, ylim |-> <<0, 60>>],
          [xlim |-> <<0, 120>>, ylim |-> <<-60, 60>>]}

NumPointsInputs == {-1, 0, 1, DefaultNumPoints}

\* min_power of an acquisition query: the default, and two lower thresholds
MinPowers == {Num(-135), Mk(-1479, -1), Num(-157)}

\* the spacecraft a fleet is drawn from: (altitude, angle_global,
\* pointing_angle, frequency_hz, antenna_gain_dB), transmit power 20 dBm.
\* The first two differ in pointing_angle and antenna_gain_dB only.
FleetPresets ==
    {<<50, 0, 0, Mk(1, 8), Num(3)>>,
     <<50, 0, 90, Mk(1, 8), Num(-3)>>,
     <<30, 180, 0, Mk(1, 8), Num(3)>>,
     <<30, 180, 0, Mk(1, 6), Num(3)>>}

\* the number of spacecraft of a fleet
NCraft == 2

NoCall == [calls |-> 0, transmit_power_dBm |-> Absent, frequency_hz |-> Absent,
           antenna_gain_dB |-> Absent]

Call(n, p, f, g) == [calls |-> n, transmit_power_dBm |-> p, frequency_hz |-> f,
                     antenna_gain_dB |-> g]

\* the spacecraft lists handed to the plots: every non-empty list without
\* repetition
RECURSIVE ListsOf(_)
ListsOf(ids) ==
    IF ids = {} THEN {<<>>}
    ELSE {<<>>} \cup UNION {{<<c>> \o l : l \in ListsOf(ids \ {c})} : c \in ids}

CraftLists == ListsOf(DOMAIN craft) \ {<<>>}

-----------------------------------------------------------------------------
(* The state machine.  craft holds the DINO objects that exist, last_call   *)
(* the arguments of the latest set_comm_params call on each (and how many   *)
(* calls there were, counted up to MaxCalls), res the latest call and its   *)
(* outcome.                                                                *)

Called(op, self, args, out) == [op |-> op, self |-> self, args |-> args, out |-> out]

\* no call is in progress
NoResult == Called("none", 0, <<>>, Ok(<<>>))

\* a call that leaves the objects as they are and hands its outcome back
Query(op, self, args, out) ==
    /\ res.op = "none"
    /\ res' = Called(op, self, args, out)
    /\ UNCHANGED <<craft, last_call>>

\* the caller takes the outcome of the latest call
Return ==
    /\ res.op # "none"
    /\ res' = NoResult
    /\ UNCHANGED <<craft, last_call>>

SetCommParams(c) ==
    \E p \in Powers, f \in Freqs, g \in Gains :
        /\ res.op = "none"
        /\ craft' = [craft EXCEPT ![c] = set_comm_params(@, p, f, g)]
        /\ last_call' = [last_call EXCEPT ![c] =
               Call(IF @.calls < MaxCalls THEN @.calls + 1 ELSE @.calls, p, f, g)]
        /\ res' = Called("set_comm_params", c,
                         [transmit_power_dBm |-> p, frequency_hz |-> f,
                          antenna_gain_dB |-> g], Ok(<<>>))

GetAbsoluteGain(c) ==
    \E theta \in Thetas, degrees \in BOOLEAN :
        Query("get_absolute_gain", c, [theta |-> theta, degrees |-> degrees],
              get_absolute_gain(craft[c], theta, degrees))

GetAbsoluteGainDB(c) ==
    \E theta \in Thetas, degrees \in BOOLEAN :
        Query("get_absolute_gain_dB", c, [theta |-> theta, degrees |-> degrees],
              get_absolute_gain_dB(craft[c], theta, degrees))

GetAbsoluteRadiationPattern(c) ==
    \E degrees \in BOOLEAN :
        Query("get_absolute_radiation_pattern", c, [degrees |-> degrees],
              get_absolute_radiation_pattern(craft[c], degrees))

GetAbsoluteRadiationPatternDB(c) ==
    \E degrees \in BOOLEAN :
        Query("get_absolute_radiation_pattern_dB", c, [degrees |-> degrees],
              get_absolute_radiation_pattern_dB(craft[c], degrees))

GetNormalizedRadiationPattern(c) ==
    \E degrees \in BOOLEAN :
        Query("get_normalized_radiation_pattern", c, [degrees |-> degrees],
              get_normalized_radiation_pattern(craft[c], degrees))

GetNormalizedRadiationPatternDB(c) ==
    \E degrees \in BOOLEAN :
        Query("get_normalized_radiation_pattern_dB", c, [degrees |-> degrees],
              get_normalized_radiation_pattern_dB(craft[c], degrees))

GetPowerReceivedField(c, nums) ==
    \E grid \in Grids, num_points \in nums, antenna_correction \in BOOLEAN :
        Query("get_power_received_field_from_spacecraft", c,
              [xlim |-> grid.xlim, ylim |-> grid.ylim, num_points |-> num_points,
               antenna_correction |-> antenna_correction],
              get_power_received_field_from_spacecraft(
                  grid.xlim, grid.ylim, craft[c], num_points, antenna_correction))

PlotBestReceivedPowerField ==
    \E l \in CraftLists, antenna_correction \in BOOLEAN :
        Query("plot_best_received_power_field", l,
              [antenna_correction |-> antenna_correction],
              best_power_map([k \in DOMAIN l |-> craft[l[k]]], antenna_correction))

PlotMinSatelliteAcquisition ==
    \E l \in CraftLists, min_power \in MinPowers, antenna_correction \in BOOLEAN :
        Query("plot_min_satellite_acquisition", l,
              [min_power |-> min_power, antenna_correction |-> antenna_correction],
              num_satellites([k \in DOMAIN l |-> craft[l[k]]], min_power,
                             antenna_correction))

\* One spacecraft, constructed and not yet configured, and every operation
\* of spacecraft.py and comms.py on it.
Init ==
    /\ craft = <<DINO(Earth, 50, 0, 0)>>
    /\ last_call = <<NoCall>>
    /\ res = NoResult

Next ==
    \/ Return
    \/ \E c \in DOMAIN craft : SetCommParams(c)
    \/ \E c \in DOMAIN craft : GetAbsoluteGain(c)
    \/ \E c \in DOMAIN craft : GetAbsoluteGainDB(c)
    \/ \E c \in DOMAIN craft : GetAbsoluteRadiationPattern(c)
    \/ \E c \in DOMAIN craft : GetAbsoluteRadiationPatternDB(c)
    \/ \E c \in DOMAIN craft : GetNormalizedRadiationPattern(c)
    \/ \E c \in DOMAIN craft : GetNormalizedRadiationPatternDB(c)
    \/ \E c \in DOMAIN craft : GetPowerReceivedField(c, NumPointsInputs)

Spec == Init /\ [][Next]_vars

\* A fleet of configured spacecraft, the field of each and the two
\* aggregated fields.
FleetCraft ==
    {[cr |-> set_comm_params(DINO(Earth, q[1], q[2], q[3]), Num(20), q[4], q[5]),
      call |-> Call(1, Num(20), q[4], q[5])] : q \in FleetPresets}

InitFleet ==
    \E fleet \in [1..NCraft -> FleetCraft] :
        /\ craft = [c \in 1..NCraft |-> fleet[c].cr]
        /\ last_call = [c \in 1..NCraft |-> fleet[c].call]
        /\ res = NoResult

NextFleet ==
    \/ Return
    \/ \E c \in DOMAIN craft : GetPowerReceivedField(c, {DefaultNumPoints})
    \/ PlotBestReceivedPowerField
    \/ PlotMinSatelliteAcquisition

SpecFleet == InitFleet /\ [][NextFleet]_vars

-----------------------------------------------------------------------------
(* Properties                                                              *)

FieldOp == "get_power_received_field_from_spacecraft"

\* the spacecraft holds a positive frequency
PositiveFrequency(cr) == cr.frequency_hz # Absent /\ Lt(Zero, cr.frequency_hz)

\* the spacecraft holds a positive frequency and a positive gain
PositiveParams(cr) ==
    PositiveFrequency(cr) /\ cr.antenna_gain_dB # Absent /\ Lt(Zero, cr.antenna_gain_dB)

GainPatternPowerOps ==
    {"get_absolute_gain", "get_absolute_gain_dB", "get_absolute_radiation_pattern",
     "get_absolute_radiation_pattern_dB", "get_normalized_radiation_pattern",
     "get_normalized_radiation_pattern_dB", FieldOp}

\* C1: on a spacecraft on which set_comm_params was never called, every
\* gain, pattern and power operation fails with the one "communication
\* parameters not configured" error (stated for a field query whose
\* num_points is positive).
C1_UnconfiguredRaisesNotConfigured ==
    (/\ res.op \in GainPatternPowerOps
     /\ last_call[res.self].calls = 0
     /\ res.op = FieldOp => res.args.num_points > 0)
        => res.out = NotConfigured

\* C2: a non-positive frequency_hz is rejected by set_comm_params and a
\* non-positive num_points by the field computation, each with a
\* ValidationError at the call: no spacecraft holds a frequency <= 0 and no
\* field is returned for a resolution <= 0.
C2_NonPositiveRejected ==
    /\ \A c \in DOMAIN craft :
           craft[c].frequency_hz # Absent => Lt(Zero, craft[c].frequency_hz)
    /\ (res.op = "set_comm_params" /\ ~Lt(Zero, res.args.frequency_hz))
           => res.out.status = "ValidationError"
    /\ (res.op = FieldOp /\ res.args.num_points <= 0)
           => res.out.status = "ValidationError"

\* C3: a field that is returned holds a finite power at a grid point that
\* coincides with the spacecraft's global position (stated for a spacecraft
\* whose frequency and gain are positive).
C3_ZeroDistanceGuarded ==
    (res.op = FieldOp /\ res.out.status = "ok" /\ PositiveParams(craft[res.self]))
        => \A i, j \in 1..res.args.num_points :
               (/\ res.out.val.X[i][j] = GlobalX(craft[res.self])
                /\ res.out.val.Y[i][j] = GlobalY(craft[res.self]))
                   => IsFinite(res.out.val.power_received[i][j])

\* C4: get_absolute_gain(theta, degrees) evaluates the Gaussian on theta in
\* radians: converted from degrees when degrees is true, as given otherwise
\* (stated for a spacecraft whose frequency and gain are positive).
C4_GainEvaluatedInRadians ==
    (res.op = "get_absolute_gain" /\ res.out.status = "ok"
         /\ PositiveParams(craft[res.self]))
        => LET g == craft[res.self].antenna_gain_dB
               theta_rad == IF res.args.degrees THEN Radians(res.args.theta)
                            ELSE res.args.theta
           IN  res.out.val = Gaussian(g, theta_rad, Sigma(g))

\* C5: get_absolute_radiation_pattern(degrees) returns 360 paired samples,
\* the angles spanning [-180, 180] with degrees true and [-pi, pi] with
\* degrees false, each gain being get_absolute_gain at the paired angle in
\* the unit the flag selects (stated for a spacecraft whose frequency and
\* gain are positive).
C5_PatternSpanAndPairing ==
    (res.op = "get_absolute_radiation_pattern" /\ res.out.status = "ok"
         /\ PositiveParams(craft[res.self]))
        => LET theta == res.out.val.theta
               pattern == res.out.val.pattern
               degrees == res.args.degrees
           IN  /\ Len(theta) = 360 /\ Len(pattern) = 360
               /\ theta[1] = (IF degrees THEN Num(-180) ELSE Neg(Pi))
               /\ theta[360] = (IF degrees THEN Num(180) ELSE Pi)
               /\ \A i \in 1..360 :
                      pattern[i] = get_absolute_gain(craft[res.self], theta[i], degrees).val

\* C6: once the communication parameters are set, whatever antenna_gain_dB
\* set_comm_params accepted, get_absolute_gain(0) is antenna_gain_dB, with
\* degrees true and with degrees false (stated for a spacecraft whose
\* frequency is positive).
C6_PeakAtBoresight ==
    (res.op = "get_absolute_gain" /\ res.out.status = "ok" /\ res.args.theta = Zero
         /\ PositiveFrequency(craft[res.self]))
        => res.out.val = craft[res.self].antenna_gain_dB

\* two spacecraft that differ at most in pointing_angle and antenna_gain_dB
SameButPointing(a, b) ==
    /\ a.orbiting_body = b.orbiting_body
    /\ a.altitude = b.altitude
    /\ a.angle_global = b.angle_global
    /\ a.transmit_power_dBm = b.transmit_power_dBm
    /\ a.frequency_hz = b.frequency_hz

\* C7: without antenna correction the field does not depend on
\* pointing_angle (nor on antenna_gain_dB): every spacecraft that agrees with
\* the queried one on body, altitude, angle_global, transmit power and
\* frequency yields the same outcome over the same bounds and num_points.
C7_UncorrectedFieldIgnoresPointing ==
    (res.op = FieldOp /\ ~res.args.antenna_correction)
        => \A d \in DOMAIN craft :
               SameButPointing(craft[res.self], craft[d])
                   => get_power_received_field_from_spacecraft(
                          res.args.xlim, res.args.ylim, craft[d],
                          res.args.num_points, FALSE) = res.out

C7_Witness ==
    /\ res.op = FieldOp
    /\ ~res.args.antenna_correction
    /\ res.out.status = "ok"
    /\ res.args.num_points > 1
    /\ \E d \in DOMAIN craft :
           /\ SameButPointing(craft[res.self], craft[d])
           /\ craft[d].pointing_angle # craft[res.self].pointing_angle
           /\ craft[d].antenna_gain_dB # craft[res.self].antenna_gain_dB

\* the power of the k-th listed spacecraft at a grid point, as the latest
\* aggregated call computed it
ListedPower(k, i, j) ==
    get_power_received_field_from_spacecraft(
        VizXlim, VizYlim, craft[res.self[k]], DefaultNumPoints,
        res.args.antenna_correction).val.power_received[i][j]

\* C8: the best-power field is the element-wise maximum of the listed
\* spacecraft's fields: at every grid point it is the power of one of them
\* and at least the power of each of them.
C8_BestIsMaximum ==
    (res.op = "plot_best_received_power_field" /\ res.out.status = "ok")
        => \A i, j \in 1..DefaultNumPoints :
               /\ \E k \in DOMAIN res.self : res.out.val[i][j] = ListedPower(k, i, j)
               /\ \A k \in DOMAIN res.self : Ge(res.out.val[i][j], ListedPower(k, i, j))

\* C9: the acquisition count at every grid point is the number of listed
\* spacecraft whose power there is at least min_power (the threshold
\* included); it lies between 0 and the number of spacecraft.
C9_CountIsNumberAtOrAboveThreshold ==
    (res.op = "plot_min_satellite_acquisition" /\ res.out.status = "ok")
        => \A i, j \in 1..DefaultNumPoints :
               /\ res.out.val[i][j] =
                      Cardinality({k \in DOMAIN res.self :
                                      Ge(ListedPower(k, i, j), res.args.min_power)})
               /\ res.out.val[i][j] \in 0..Len(res.self)

\* a count field with a point acquired by two spacecraft, a point acquired
\* by one and a point acquired by none
C9_Witness ==
    /\ res.op = "plot_min_satellite_acquisition"
    /\ res.out.status = "ok"
    /\ \A n \in 0..2 : \E i, j \in 1..DefaultNumPoints : res.out.val[i][j] = n

\* the parameters a spacecraft holds are those of the latest call
HoldsLatestCall(c) ==
    last_call[c].calls > 0 =>
        /\ craft[c].comms_params_set
        /\ craft[c].transmit_power_dBm = last_call[c].transmit_power_dBm
        /\ craft[c].frequency_hz = last_call[c].frequency_hz
        /\ craft[c].antenna_gain_dB = last_call[c].antenna_gain_dB
        /\ craft[c].antenna_gain_abs = Pow10(Div(last_call[c].antenna_gain_dB, Num(10)))

\* C10: after any sequence of set_comm_params calls a spacecraft holds the
\* arguments of the most recent call and the antenna_gain_abs derived from
\* them, and a spacecraft that is configured stays configured.
C10_LatestCallWinsAndStaysConfigured ==
    /\ [](\A c \in DOMAIN craft : HoldsLatestCall(c))
    /\ [][\A c \in DOMAIN craft :
              craft[c].comms_params_set => craft'[c].comms_params_set]_vars

\* set_comm_params has just been called again on a configured spacecraft
C10_Witness ==
    /\ res.op = "set_comm_params"
    /\ last_call[res.self].calls >= 2
    /\ craft[res.self].comms_params_set

\* the point (X, Y) lies on the ray that leaves the spacecraft's global
\* position in its absolute pointing direction
OnBoresight(cr, X, Y, gx, gy) ==
    LET a  == get_absolute_pointing_angle(cr, FALSE)
        v0 == Sub(X, gx)
        v1 == Sub(Y, gy)
    IN  /\ Sub(Mul(Cos(a), v1), Mul(Sin(a), v0)) = Zero
        /\ Lt(Zero, Add(Mul(Cos(a), v0), Mul(Sin(a), v1)))

\* the gain model's dB gain at an angle given in radians
GainModel_dB(antenna_gain_dB, theta_rad) ==
    TenLog10(Gaussian(antenna_gain_dB, theta_rad, Sigma(antenna_gain_dB)))

\* C11: with antenna_correction enabled, the power returned at every grid
\* point is the uncorrected power there (transmit_power_dBm minus the path
\* loss) plus the gain model's dB gain at the angle off boresight, that angle
\* being the signed angle in radians between the absolute pointing direction
\* and the vector from the spacecraft to the point; a point on the boresight
\* ray has angle 0 and receives the peak gain 10*log10(antenna_gain_dB)
\* (stated for a spacecraft whose frequency and gain are positive).
C11_CorrectedPowerAddsGainOffBoresight ==
    (res.op = FieldOp /\ res.out.status = "ok" /\ res.args.antenna_correction
         /\ PositiveParams(craft[res.self]))
        => LET cr == craft[res.self]
               g  == cr.antenna_gain_dB
               gx == GlobalX(cr)
               gy == GlobalY(cr)
           IN  \A i, j \in 1..res.args.num_points :
                   LET X == res.out.val.X[i][j]
                       Y == res.out.val.Y[i][j]
                       base == Sub(cr.transmit_power_dBm,
                                   PathLoss(Distance(X, Y, gx, gy), cr.frequency_hz))
                       angle == AngleToPoint(cr, X, Y, gx, gy)
                   IN  /\ res.out.val.power_received[i][j]
                              = Add(base, GainModel_dB(g, angle))
                       /\ OnBoresight(cr, X, Y, gx, gy)
                              => /\ angle = Zero
                                 /\ res.out.val.power_received[i][j]
                                        = Add(base, TenLog10(g))

====
